---- MODULE Spec2Model ----
(***************************************************************************)
(* Model of the XML -> JSON -> CSV conversion controllers.                 *)
(*                                                                         *)
(* JavaScript values are tagged records; strings (and so mapping keys,     *)
(* file names and path expressions) are sequences of one-character         *)
(* strings, so that concatenation, splitting and emptiness are computed    *)
(* the way the code computes them.  A mapping is the sequence of its       *)
(* <<key, value>> entries in Object.entries order, keys pairwise distinct. *)
(***************************************************************************)
EXTENDS Integers, Sequences, FiniteSets, TLC

----------------------------------------------------------------------------
(* JavaScript values *)

Undefined == [t |-> "undefined"]
Null == [t |-> "null"]
Bool(b) == [t |-> "bool", b |-> b]
Num(n) == [t |-> "num", n |-> n]
Str(s) == [t |-> "str", s |-> s]
Arr(xs) == [t |-> "arr", xs |-> xs]
Obj(es) == [t |-> "obj", es |-> es]

\* Array.isArray(v)
IsArray(v) == v.t = "arr"

\* typeof v === "object" && !Array.isArray(v) && v !== null
IsPlainObject(v) == v.t = "obj"

\* JavaScript truthiness, as used by `!x`, `x ? :` and `&&`
Truthy(v) ==
  CASE v.t = "undefined" -> FALSE
    [] v.t = "null" -> FALSE
    [] v.t = "bool" -> v.b
    [] v.t = "num" -> v.n # 0
    [] v.t = "str" -> v.s # <<>>
    [] OTHER -> TRUE

Digits == <<"0", "1", "2", "3", "4", "5", "6", "7", "8", "9">>

\* the property name of array index i (0-based); arrays of the model
\* are shorter than ten elements
IndexKey(i) == <<Digits[i + 1]>>

\* TRUE iff key names the index of an element of a sequence of length n
IsIndexKey(key, n) ==
  /\ Len(key) = 1
  /\ \E i \in 0..(n - 1) : i < 10 /\ key = IndexKey(i)

IndexOfKey(key, n) == CHOOSE i \in 0..(n - 1) : i < 10 /\ key = IndexKey(i)

LengthKey == <<"l", "e", "n", "g", "t", "h">>

\* the position of key among the entries es, 0 when it is no own property
KeyPos(es, key) ==
  IF \E i \in 1..Len(es) : es[i][1] = key
  THEN CHOOSE i \in 1..Len(es) : es[i][1] = key
  ELSE 0

\* acc[key] for a truthy acc: own properties of mappings, elements and
\* length of arrays and strings; anything else reads undefined
GetProp(acc, key) ==
  CASE acc.t = "obj" ->
         IF KeyPos(acc.es, key) = 0 THEN Undefined
         ELSE acc.es[KeyPos(acc.es, key)][2]
    [] acc.t = "arr" ->
         IF IsIndexKey(key, Len(acc.xs)) THEN acc.xs[IndexOfKey(key, Len(acc.xs)) + 1]
         ELSE IF key = LengthKey THEN Num(Len(acc.xs))
         ELSE Undefined
    [] acc.t = "str" ->
         IF IsIndexKey(key, Len(acc.s)) THEN Str(<<acc.s[IndexOfKey(key, Len(acc.s)) + 1]>>)
         ELSE IF key = LengthKey THEN Num(Len(acc.s))
         ELSE Undefined
    [] OTHER -> Undefined

\* result[key] = value: overwrite in place, or add as the last property
SetProp(es, key, value) ==
  IF KeyPos(es, key) = 0 THEN Append(es, <<key, value>>)
  ELSE [es EXCEPT ![KeyPos(es, key)] = <<key, value>>]

\* Object.entries(data) for a data it does not throw on
ObjectEntries(data) ==
  CASE data.t = "obj" -> data.es
    [] data.t = "arr" -> [i \in 1..Len(data.xs) |-> <<IndexKey(i - 1), data.xs[i]>>]
    [] data.t = "str" -> [i \in 1..Len(data.s) |-> <<IndexKey(i - 1), Str(<<data.s[i]>>)>>]
    [] OTHER -> <<>>

\* Object.entries(data) throws a TypeError on null and undefined
ObjectEntriesThrows(data) == data.t \in {"null", "undefined"}

----------------------------------------------------------------------------
(* cleanJson *)

AttributeMarker == <<"$">>

RECURSIVE cleanJson(_)
RECURSIVE cleanEntries(_)

\* cleanEntries without `if (key === "$") continue`
cleanEntriesKeepMarker(es) ==
  IF es = <<>> THEN <<>>
  ELSE <<<<es[1][1], cleanJson(es[1][2])>>>> \o cleanEntries(Tail(es))

\* the loop of cleanJson over Object.entries(obj)
cleanEntries(es) ==
  IF es = <<>> THEN <<>>
  ELSE IF es[1][1] = AttributeMarker THEN cleanEntries(Tail(es))
  ELSE <<<<es[1][1], cleanJson(es[1][2])>>>> \o cleanEntries(Tail(es))

\* cleanJson returning the only element of an array as it is: obj[0]
\* instead of cleanJson(obj[0])
cleanJsonUnwrapOnly(obj) ==
  IF IsArray(obj)
  THEN IF Len(obj.xs) = 1 THEN obj.xs[1]
       ELSE Arr([i \in 1..Len(obj.xs) |-> cleanJson(obj.xs[i])])
  ELSE IF obj.t = "obj" THEN Obj(cleanEntries(obj.es))
  ELSE obj

cleanJson(obj) ==
  IF IsArray(obj)
  THEN IF Len(obj.xs) = 1 THEN cleanJson(obj.xs[1])
       ELSE Arr([i \in 1..Len(obj.xs) |-> cleanJson(obj.xs[i])])
  ELSE IF obj.t = "obj" THEN Obj(cleanEntries(obj.es))
  ELSE obj

----------------------------------------------------------------------------
(* flattenJson *)

Slash == "/"

\* const newKey = parentKey ? `${parentKey}/${key}` : key
NewKey(parentKey, key) ==
  IF parentKey # <<>> THEN parentKey \o <<Slash>> \o key ELSE key

RECURSIVE flattenEntries(_, _, _)

\* flattenEntries recursing into arrays instead of mappings: the test
\* `!Array.isArray(value)` without its negation
flattenEntriesIntoArrays(es, parentKey, result) ==
  IF es = <<>> THEN result
  ELSE LET key == es[1][1]
           value == es[1][2]
           newKey == NewKey(parentKey, key)
       IN flattenEntries(Tail(es), parentKey,
            IF IsArray(value)
            THEN flattenEntries(ObjectEntries(value), newKey, result)
            ELSE SetProp(result, newKey, value))

\* the loop of flattenJson over the entries es of data
flattenEntries(es, parentKey, result) ==
  IF es = <<>> THEN result
  ELSE LET key == es[1][1]
           value == es[1][2]
           newKey == NewKey(parentKey, key)
       IN flattenEntries(Tail(es), parentKey,
            IF IsPlainObject(value)
            THEN flattenEntries(ObjectEntries(value), newKey, result)
            ELSE SetProp(result, newKey, value))

\* flattenJson(data, parentKey = "", result = {}), the entries of the result
flattenJson(data, parentKey, result) ==
  flattenEntries(ObjectEntries(data), parentKey, result)

----------------------------------------------------------------------------
(* path selection *)

Dot == "."

RECURSIVE Split(_)

\* jsonPath.split(".")
Split(s) ==
  IF \E i \in 1..Len(s) : s[i] = Dot
  THEN LET i == CHOOSE j \in 1..Len(s) : s[j] = Dot /\ \A k \in 1..(j - 1) : s[k] # Dot
       IN <<SubSeq(s, 1, i - 1)>> \o Split(SubSeq(s, i + 1, Len(s)))
  ELSE <<s>>

\* (acc, key) => (acc && acc[key] ? acc[key] : null)
SelectStep(acc, key) ==
  IF Truthy(acc) /\ Truthy(GetProp(acc, key)) THEN GetProp(acc, key) ELSE Null

RECURSIVE Reduce(_, _)

\* segments.reduce(SelectStep, acc)
Reduce(segments, acc) ==
  IF segments = <<>> THEN acc
  ELSE Reduce(Tail(segments), SelectStep(acc, segments[1]))

----------------------------------------------------------------------------
(* JSON text: JSON.stringify and JSON.parse *)

\* A JSON text is the sequence of its tokens; the white space of the
\* 2-space pretty printing separates tokens and is skipped by JSON.parse.
Punct(c) == [k |-> "punct", c |-> c]
StrTok(s) == [k |-> "str", s |-> s]
NumTok(n) == [k |-> "num", n |-> n]
LitTok(w) == [k |-> "lit", w |-> w]

RECURSIVE Stringify(_)
RECURSIVE StringifyElements(_)
RECURSIVE StringifyMembers(_, _)

\* the elements of an array, comma separated; undefined prints as null
StringifyElements(xs) ==
  IF xs = <<>> THEN <<>>
  ELSE (IF xs[1].t = "undefined" THEN <<LitTok("null")>> ELSE Stringify(xs[1]))
       \o (IF Len(xs) > 1 THEN <<Punct(",")>> ELSE <<>>)
       \o StringifyElements(Tail(xs))

\* the members of an object, comma separated; undefined members are left out
StringifyMembers(es, first) ==
  IF es = <<>> THEN <<>>
  ELSE IF es[1][2].t = "undefined" THEN StringifyMembers(Tail(es), first)
  ELSE (IF first THEN <<>> ELSE <<Punct(",")>>)
       \o <<StrTok(es[1][1]), Punct(":")>> \o Stringify(es[1][2])
       \o StringifyMembers(Tail(es), FALSE)

\* JSON.stringify(v, null, 2) for a v other than undefined
Stringify(v) ==
  CASE v.t = "null" -> <<LitTok("null")>>
    [] v.t = "bool" -> <<LitTok(IF v.b THEN "true" ELSE "false")>>
    [] v.t = "num" -> <<NumTok(v.n)>>
    [] v.t = "str" -> <<StrTok(v.s)>>
    [] v.t = "arr" -> <<Punct("[")>> \o StringifyElements(v.xs) \o <<Punct("]")>>
    [] v.t = "obj" -> <<Punct("{")>> \o StringifyMembers(v.es, TRUE) \o <<Punct("}")>>

SyntaxError == [ok |-> FALSE, v |-> Null, rest |-> <<>>]
Parsed(v, rest) == [ok |-> TRUE, v |-> v, rest |-> rest]

IsPunct(toks, c) == toks # <<>> /\ toks[1].k = "punct" /\ toks[1].c = c

RECURSIVE ParseValue(_)
RECURSIVE ParseElements(_, _)
RECURSIVE ParseMembers(_, _)

\* one value at the head of toks
ParseValue(toks) ==
  IF toks = <<>> THEN SyntaxError
  ELSE LET tok == toks[1] IN
    CASE tok.k = "str" -> Parsed(Str(tok.s), Tail(toks))
      [] tok.k = "num" -> Parsed(Num(tok.n), Tail(toks))
      [] tok.k = "lit" ->
           Parsed(CASE tok.w = "null" -> Null
                    [] tok.w = "true" -> Bool(TRUE)
                    [] OTHER -> Bool(FALSE), Tail(toks))
      [] tok.k = "punct" /\ tok.c = "[" ->
           IF IsPunct(Tail(toks), "]") THEN Parsed(Arr(<<>>), Tail(Tail(toks)))
           ELSE ParseElements(Tail(toks), <<>>)
      [] tok.k = "punct" /\ tok.c = "{" ->
           IF IsPunct(Tail(toks), "}") THEN Parsed(Obj(<<>>), Tail(Tail(toks)))
           ELSE ParseMembers(Tail(toks), <<>>)
      [] OTHER -> SyntaxError

\* the elements of an array after "[" or ",", up to and including "]"
ParseElements(toks, acc) ==
  LET e == ParseValue(toks) IN
    IF ~e.ok THEN SyntaxError
    ELSE IF IsPunct(e.rest, ",") THEN ParseElements(Tail(e.rest), Append(acc, e.v))
    ELSE IF IsPunct(e.rest, "]") THEN Parsed(Arr(Append(acc, e.v)), Tail(e.rest))
    ELSE SyntaxError

\* the members of an object after "{" or ",", up to and including "}";
\* a repeated key overwrites the earlier member
ParseMembers(toks, acc) ==
  IF toks = <<>> \/ toks[1].k # "str" \/ ~IsPunct(Tail(toks), ":") THEN SyntaxError
  ELSE LET m == ParseValue(Tail(Tail(toks))) IN
    IF ~m.ok THEN SyntaxError
    ELSE IF IsPunct(m.rest, ",")
         THEN ParseMembers(Tail(m.rest), SetProp(acc, toks[1].s, m.v))
    ELSE IF IsPunct(m.rest, "}")
         THEN Parsed(Obj(SetProp(acc, toks[1].s, m.v)), Tail(m.rest))
    ELSE SyntaxError

\* JSON.parse(text): the whole text is one value, or a SyntaxError is thrown
JsonParse(text) ==
  LET p == ParseValue(text) IN
    IF p.ok /\ p.rest = <<>> THEN p ELSE SyntaxError

----------------------------------------------------------------------------
(* path.extname, path.basename, for file names without directory parts *)

\* the index of the last "." of p, 0 when there is none
LastDot(p) ==
  IF \E i \in 1..Len(p) : p[i] = Dot
  THEN CHOOSE i \in 1..Len(p) : p[i] = Dot /\ \A j \in (i + 1)..Len(p) : p[j] # Dot
  ELSE 0

\* path.extname(p): from the last "." on, "" when p has none or starts with it
ExtName(p) == IF LastDot(p) <= 1 THEN <<>> ELSE SubSeq(p, LastDot(p), Len(p))

\* path.basename(p, ext): p without the suffix ext
BaseName(p, ext) ==
  IF /\ ext # <<>>
     /\ Len(p) > Len(ext)
     /\ SubSeq(p, Len(p) - Len(ext) + 1, Len(p)) = ext
  THEN SubSeq(p, 1, Len(p) - Len(ext))
  ELSE p

JsonExt == <<".", "j", "s", "o", "n">>
CsvExt == <<".", "c", "s", "v">>

\* `${path.basename(filename, path.extname(filename))}.json`
OutputJsonName(filename) == BaseName(filename, ExtName(filename)) \o JsonExt

\* `${path.basename(filename, path.extname(filename))}.csv`
OutputCsvName(filename) == BaseName(filename, ExtName(filename)) \o CsvExt

----------------------------------------------------------------------------
(* directories and files *)

NoFile == [t |-> "nofile"]
File(text) == [t |-> "file", text |-> text]

\* fs.existsSync(path.join(dir, name))
ExistsSync(dir, name) == name \in DOMAIN dir /\ dir[name] # NoFile

\* fs.readFileSync(path.join(dir, name), "utf8")
ReadFileSync(dir, name) == dir[name].text

\* a write that leaves a file that is there already as it is, as
\* fs.writeFileSync with the flag "wx" does
WriteFileSyncExclusive(dir, name, text) ==
  [dir EXCEPT ![name] = IF dir[name] = NoFile THEN File(text) ELSE dir[name]]

\* fs.writeFileSync(path.join(dir, name), text, "utf8"): the file holds
\* text and nothing else
WriteFileSync(dir, name, text) == [dir EXCEPT ![name] = File(text)]

----------------------------------------------------------------------------
(* the external collaborators: xml2js and json2csv *)

\* An XML text is known by what xml2js makes of it: a tree, or a rejection.
XmlText(tree) == [wellFormed |-> TRUE, tree |-> tree]
MalformedXml == [wellFormed |-> FALSE, tree |-> Null]

RECURSIVE AddKeys(_, _)

\* acc with the keys of the row es that it does not hold yet
AddKeys(es, acc) ==
  IF es = <<>> THEN acc
  ELSE AddKeys(Tail(es), IF \E i \in 1..Len(acc) : acc[i] = es[1][1]
                         THEN acc ELSE Append(acc, es[1][1]))

RECURSIVE UnionKeys(_, _)

\* the header of the CSV: the keys of the rows in order of first appearance
UnionKeys(rows, acc) ==
  IF rows = <<>> THEN acc
  ELSE UnionKeys(Tail(rows), AddKeys(rows[1], acc))

\* json2csvParser.parse(flattenedData): a header and one line per row
Json2Csv(rows) ==
  LET fields == UnionKeys(rows, <<>>) IN
    [fields |-> fields,
     lines |-> [i \in 1..Len(rows) |->
                 [j \in 1..Len(fields) |-> GetProp(Obj(rows[i]), fields[j])]]]

----------------------------------------------------------------------------
(* responses *)

NoData == Undefined
NoPath == <<>>

\* res.json({message, jsonFilePath | csvFilePath, data})
ResJson(filePath, data) ==
  [class |-> "ok", error |-> "", stage |-> "", filePath |-> filePath, data |-> data]

\* res.badRequest, res.notFound, res.serverError, with the stage that failed
ResError(class, error, stage) ==
  [class |-> class, error |-> error, stage |-> stage, filePath |-> NoPath, data |-> NoData]

FilenameRequired == ResError("badRequest", "Filename is required.", "validate")
FileNotFound == ResError("notFound", "File not found.", "locate")
PathDoesNotExist ==
  ResError("badRequest", "The specified JSON path does not exist.", "select")
NotAnArray ==
  ResError("badRequest", "The selected JSON data is not an array and cannot be converted to CSV.", "array")
ConversionFailed(stage) == ResError("serverError", "Failed to convert.", stage)

----------------------------------------------------------------------------
(* the pipelines of the handlers, from the parse on *)

NotReached == Undefined

\* What a pipeline hands to its last steps: the response, whether the output
\* file is written and with what text; and for the record the document the
\* selection started from, dataToConvert, and the rows given to json2csv
\* (NotReached, <<>>: the pipeline ended before).
Outcome(resp, write, text, jsonData, selected, rows) ==
  [resp |-> resp, write |-> write, text |-> text,
   jsonData |-> jsonData, selected |-> selected, rows |-> rows]

Failed(resp) == Outcome(resp, FALSE, <<>>, NotReached, NotReached, <<>>)

\* dataToConvert.map((item) => flattenJson(item)) throws when an item is
\* null: Object.entries(null) is a TypeError
FlattenThrows(dataToConvert) ==
  \E i \in 1..Len(dataToConvert.xs) : ObjectEntriesThrows(dataToConvert.xs[i])

FlattenAll(dataToConvert) ==
  [i \in 1..Len(dataToConvert.xs) |-> flattenJson(dataToConvert.xs[i], <<>>, <<>>)]

\* CsvStage writing the CSV file before the array check
CsvStageWriteFirst(jsonData, dataToConvert, outputCsvName, responseData, csvOk) ==
  IF ~Truthy(dataToConvert)
  THEN Outcome(PathDoesNotExist, FALSE, <<>>, jsonData, dataToConvert, <<>>)
  ELSE IF ~IsArray(dataToConvert)
  THEN Outcome(NotAnArray, TRUE, Json2Csv(<<>>), jsonData, dataToConvert, <<>>)
  ELSE IF FlattenThrows(dataToConvert)
  THEN Outcome(ConversionFailed("flatten"), FALSE, <<>>, jsonData, dataToConvert, <<>>)
  ELSE IF ~csvOk
  THEN Outcome(ConversionFailed("serialize"), FALSE, <<>>,
               jsonData, dataToConvert, FlattenAll(dataToConvert))
  ELSE Outcome(ResJson(outputCsvName, responseData), TRUE,
               Json2Csv(FlattenAll(dataToConvert)),
               jsonData, dataToConvert, FlattenAll(dataToConvert))

\* From `if (!dataToConvert)` to the response: the checks, the flattening,
\* json2csv (which throws iff ~csvOk) and the write of the CSV file.
CsvStage(jsonData, dataToConvert, outputCsvName, responseData, csvOk) ==
  IF ~Truthy(dataToConvert)
  THEN Outcome(PathDoesNotExist, FALSE, <<>>, jsonData, dataToConvert, <<>>)
  ELSE IF ~IsArray(dataToConvert)
  THEN Outcome(NotAnArray, FALSE, <<>>, jsonData, dataToConvert, <<>>)
  ELSE IF FlattenThrows(dataToConvert)
  THEN Outcome(ConversionFailed("flatten"), FALSE, <<>>, jsonData, dataToConvert, <<>>)
  ELSE IF ~csvOk
  THEN Outcome(ConversionFailed("serialize"), FALSE, <<>>,
               jsonData, dataToConvert, FlattenAll(dataToConvert))
  ELSE Outcome(ResJson(outputCsvName, responseData), TRUE,
               Json2Csv(FlattenAll(dataToConvert)),
               jsonData, dataToConvert, FlattenAll(dataToConvert))

\* xmlToJson from `await parser.parseStringPromise(xmlData)` on
XmlToJsonOutcome(xmlData, filename) ==
  IF ~xmlData.wellFormed THEN Failed(ConversionFailed("parse"))
  ELSE LET cleanedJson == cleanJson(xmlData.tree) IN
    Outcome(ResJson(OutputJsonName(filename), cleanedJson), TRUE,
            Stringify(cleanedJson), NotReached, NotReached, <<>>)

\* jsonToCsv from `JSON.parse(fs.readFileSync(jsonFilePath))` on
JsonToCsvOutcome(text, filename, jsonPath, csvOk) ==
  LET p == JsonParse(text) IN
    IF ~p.ok THEN Failed(ConversionFailed("parse"))
    ELSE LET jsonData == p.v
             dataToConvert ==
               IF Truthy(jsonPath) THEN Reduce(Split(jsonPath.s), jsonData)
               ELSE jsonData
         IN CsvStage(jsonData, dataToConvert, OutputCsvName(filename), NoData, csvOk)

ClearingKey == <<"c", "l", "e", "a", "r", "i", "n", "g">>
OperationKey == <<"o", "p", "e", "r", "a", "t", "i", "o", "n">>

\* "clearing.operation"
DefaultJsonPath == Str(ClearingKey \o <<Dot>> \o OperationKey)

\* const { filename, jsonPath = "clearing.operation" } = req.body
WithDefault(jsonPath) == IF jsonPath.t = "undefined" THEN DefaultJsonPath ELSE jsonPath

\* convert from `await parser.parseStringPromise(xmlData)` on; jsonPath is
\* the destructured one; jsonPath.split throws when it is no string
ConvertOutcome(xmlData, filename, jsonPath, csvOk) ==
  IF ~xmlData.wellFormed THEN Failed(ConversionFailed("parse"))
  ELSE LET cleanedJson == cleanJson(xmlData.tree) IN
    IF jsonPath.t # "str" THEN Failed(ConversionFailed("select"))
    ELSE CsvStage(cleanedJson, Reduce(Split(jsonPath.s), cleanedJson),
                  OutputCsvName(filename), cleanedJson, csvOk)

----------------------------------------------------------------------------
(* the files the handlers find *)

XmlExt == <<".", "x">>
AltExt == <<".", "y">>

\* <clearing v="1"><operation id="1"><a>5</a><p><n>x</n></p></operation>
\*   <operation><a>7</a></operation></clearing>, as xml2js parses it
TreeA ==
  Obj(<<<<ClearingKey,
          Obj(<<<<AttributeMarker, Obj(<<<<<<"v">>, Str(<<"1">>)>>>>)>>,
                <<OperationKey,
                  Arr(<<Obj(<<<<AttributeMarker, Obj(<<<<<<"i">>, Str(<<"1">>)>>>>)>>,
                              <<<<"a">>, Arr(<<Str(<<"5">>)>>)>>,
                              <<<<"p">>, Arr(<<Obj(<<<<<<"n">>, Arr(<<Str(<<"x">>)>>)>>>>)>>)>>>>),
                        Obj(<<<<<<"a">>, Arr(<<Str(<<"7">>)>>)>>>>)>>)>>>>)>>>>)

\* <clearing><operation>5</operation><operation>7</operation></clearing>
TreeB == Obj(<<<<ClearingKey, Obj(<<<<OperationKey, Arr(<<Str(<<"5">>), Str(<<"7">>)>>)>>>>)>>>>)

FileAX == <<"a">> \o XmlExt
FileAY == <<"a">> \o AltExt
FileBX == <<"b">> \o XmlExt
FileCX == <<"c">> \o XmlExt

\* The XML input directory: a.x and a.y share the stem a, b.x is malformed,
\* c.x is not there.  templates/xml and uploads hold the same files.
XmlDir ==
  [n \in {FileAX, FileAY, FileBX, FileCX} |->
     CASE n = FileAX -> File(XmlText(TreeA))
       [] n = FileAY -> File(XmlText(TreeB))
       [] n = FileBX -> File(MalformedXml)
       [] OTHER -> NoFile]

FileAJson == <<"a">> \o JsonExt
FileBJson == <<"b">> \o JsonExt
FileNJson == <<"n">> \o JsonExt
FileLJson == <<"l">> \o JsonExt
FileRJson == <<"r">> \o JsonExt
FileQJson == <<"q">> \o JsonExt

\* {"a": [{"k": 1}, {"k": 2}]}
DocR ==
  Obj(<<<<<<"a">>, Arr(<<Obj(<<<<<<"k">>, Num(1)>>>>), Obj(<<<<<<"k">>, Num(2)>>>>)>>)>>>>)

\* templates/json before any request: n.json is `0`, l.json is `[null]`,
\* r.json is DocR, q.json is the cut-off text `{`
InitialJsonDir ==
  [n \in {FileAJson, FileBJson, FileNJson, FileLJson, FileRJson, FileQJson} |->
     CASE n = FileNJson -> File(Stringify(Num(0)))
       [] n = FileLJson -> File(Stringify(Arr(<<Null>>)))
       [] n = FileRJson -> File(Stringify(DocR))
       [] n = FileQJson -> File(<<Punct("{")>>)
       [] OTHER -> NoFile]

CsvNames == {OutputCsvName(n) : n \in DOMAIN XmlDir \cup DOMAIN InitialJsonDir}

EmptyCsvDir == [n \in CsvNames |-> NoFile]

----------------------------------------------------------------------------
(* requests *)

Body(filename, jsonPath) == [filename |-> filename, jsonPath |-> jsonPath]

\* the bodies POSTed to /convert/xml-to-json
XmlToJsonBodies ==
  <<Body(Undefined, Undefined), Body(Str(FileAX), Undefined), Body(Str(FileAY), Undefined),
    Body(Str(FileBX), Undefined), Body(Str(FileCX), Undefined)>>

\* the bodies POSTed to /convert/json-to-csv
JsonToCsvBodies ==
  <<Body(Undefined, Undefined), Body(Str(FileAJson), DefaultJsonPath),
    Body(Str(FileAJson), Undefined), Body(Str(FileAJson), Str(<<>>)),
    Body(Str(FileNJson), Undefined), Body(Str(FileLJson), Undefined),
    Body(Str(FileRJson), Str(<<"a", ".", "0">>)), Body(Str(FileRJson), Str(<<"a">>)),
    Body(Str(FileQJson), Undefined)>>

\* the bodies POSTed to /convert/xml-to-csv
ConvertBodies ==
  <<Body(Undefined, Undefined), Body(Str(FileAX), Undefined), Body(Str(FileAX), Str(<<>>)),
    Body(Str(FileAX), Null), Body(Str(FileAY), Undefined), Body(Str(FileAY), DefaultJsonPath),
    Body(Str(FileBX), Undefined), Body(Str(FileCX), Undefined)>>

MaxRequests == 2

\* A request: where it stands, its handler and body, the xmlData it read,
\* whether json2csv worked for it, its response, and what its pipeline
\* recorded (see Outcome).
Request(pc, handler, body, xmlData, csvOk, out) ==
  [pc |-> pc, handler |-> handler, body |-> body, xmlData |-> xmlData, csvOk |-> csvOk,
   resp |-> out.resp, jsonData |-> out.jsonData, selected |-> out.selected, rows |-> out.rows]

Idle ==
  Request("idle", "", Body(Undefined, Undefined), MalformedXml, TRUE, Failed(FilenameRequired))

\* a request suspended at `await parser.parseStringPromise(xmlData)`
Parsing(handler, body, xmlData) ==
  Request("parsing", handler, body, xmlData, TRUE, Failed(FilenameRequired))

\* a request that has been answered
Done(handler, body, xmlData, csvOk, out) ==
  Request("done", handler, body, xmlData, csvOk, out)

----------------------------------------------------------------------------
(* state *)

VARIABLES
  templatesJson,  \* templates/json: file name -> File or NoFile
  templatesCsv,   \* templates/csv, which no handler creates
  csvDirExists,   \* whether templates/csv is there
  exportsDir,     \* exports, which convert creates if need be
  req,            \* the requests in order of arrival: where each stands
  arrived,        \* how many requests have arrived
  writer,         \* per output file, the request that wrote it last (0: none)
  val,            \* a value handed to cleanJson and flattenJson directly
  wraps,          \* how deep val has been built
  phase,          \* "build", then "cleaned" or "flattened"
  cleaned,        \* cleanJson(val) once phase = "cleaned"
  flat            \* the entries of flattenJson(val) once phase = "flattened"

handlerVars == <<templatesJson, templatesCsv, csvDirExists, exportsDir, req, arrived, writer>>
pureVars == <<val, wraps, phase, cleaned, flat>>
vars == <<templatesJson, templatesCsv, csvDirExists, exportsDir, req, arrived, writer,
          val, wraps, phase, cleaned, flat>>

Requests == 1..MaxRequests

NoWriter ==
  [json |-> [n \in DOMAIN InitialJsonDir |-> 0],
   csv |-> [n \in CsvNames |-> 0],
   exports |-> [n \in CsvNames |-> 0]]

InitHandlers ==
  /\ templatesJson = InitialJsonDir
  /\ templatesCsv = EmptyCsvDir
  /\ csvDirExists \in BOOLEAN
  /\ exportsDir = EmptyCsvDir
  /\ req = [i \in Requests |-> Idle]
  /\ arrived = 0
  /\ writer = NoWriter

InitPure ==
  /\ val = Null
  /\ wraps = 0
  /\ phase = "build"
  /\ cleaned = Null
  /\ flat = <<>>

Init == InitHandlers /\ InitPure

----------------------------------------------------------------------------
(* the handlers *)

\* `if (!filename)` and `if (!fs.existsSync(...))`: the response that ends
\* the request there, or the go-ahead
Located(dir, filename) ==
  IF ~Truthy(filename) THEN FilenameRequired
  ELSE IF ~ExistsSync(dir, filename.s) THEN FileNotFound
  ELSE ResJson(NoPath, NoData)

\* xmlToJson up to `await parser.parseStringPromise(xmlData)`
XmlToJsonBegin(i, body) ==
  /\ i = arrived + 1
  /\ arrived' = i
  /\ req' = [req EXCEPT ![i] =
       IF Located(XmlDir, body.filename).class # "ok"
       THEN Done("xmlToJson", body, MalformedXml, TRUE, Failed(Located(XmlDir, body.filename)))
       ELSE Parsing("xmlToJson", body, ReadFileSync(XmlDir, body.filename.s))]
  /\ UNCHANGED <<templatesJson, templatesCsv, csvDirExists, exportsDir, writer>>

\* xmlToJson from the parse result to the response
XmlToJsonResume(i) ==
  /\ req[i].pc = "parsing"
  /\ req[i].handler = "xmlToJson"
  /\ LET out == XmlToJsonOutcome(req[i].xmlData, req[i].body.filename.s)
         name == OutputJsonName(req[i].body.filename.s)
     IN /\ templatesJson' =
             IF out.write THEN WriteFileSync(templatesJson, name, out.text)
             ELSE templatesJson
        /\ writer' = IF out.write THEN [writer EXCEPT !.json[name] = i] ELSE writer
        /\ req' = [req EXCEPT ![i] =
             Done("xmlToJson", req[i].body, req[i].xmlData, TRUE, out)]
  /\ UNCHANGED <<templatesCsv, csvDirExists, exportsDir, arrived>>

\* jsonToCsv, which never suspends; the write fails when templates/csv is
\* not there
JsonToCsv(i, body, csvOk) ==
  /\ i = arrived + 1
  /\ arrived' = i
  /\ IF Located(templatesJson, body.filename).class # "ok"
     THEN /\ req' = [req EXCEPT ![i] =
               Done("jsonToCsv", body, MalformedXml, TRUE,
                    Failed(Located(templatesJson, body.filename)))]
          /\ UNCHANGED <<templatesCsv, writer>>
     ELSE LET out == JsonToCsvOutcome(ReadFileSync(templatesJson, body.filename.s),
                                      body.filename.s, body.jsonPath, csvOk)
              name == OutputCsvName(body.filename.s)
              written == out.write /\ csvDirExists
          IN /\ templatesCsv' =
                  IF written THEN WriteFileSync(templatesCsv, name, out.text)
                  ELSE templatesCsv
             /\ writer' = IF written THEN [writer EXCEPT !.csv[name] = i] ELSE writer
             /\ req' = [req EXCEPT ![i] =
                  Done("jsonToCsv", body, MalformedXml, out.resp.stage # "serialize",
                       IF out.write /\ ~csvDirExists
                       THEN [out EXCEPT !.resp = ConversionFailed("write")]
                       ELSE out)]
  /\ UNCHANGED <<templatesJson, csvDirExists, exportsDir>>

\* convert up to `await parser.parseStringPromise(xmlData)`
ConvertBegin(i, body) ==
  /\ i = arrived + 1
  /\ arrived' = i
  /\ req' = [req EXCEPT ![i] =
       IF Located(XmlDir, body.filename).class # "ok"
       THEN Done("convert", body, MalformedXml, TRUE, Failed(Located(XmlDir, body.filename)))
       ELSE Parsing("convert", body, ReadFileSync(XmlDir, body.filename.s))]
  /\ UNCHANGED <<templatesJson, templatesCsv, csvDirExists, exportsDir, writer>>

\* convert from the parse result to the response
ConvertResume(i, csvOk) ==
  /\ req[i].pc = "parsing"
  /\ req[i].handler = "convert"
  /\ LET out == ConvertOutcome(req[i].xmlData, req[i].body.filename.s,
                               WithDefault(req[i].body.jsonPath), csvOk)
         name == OutputCsvName(req[i].body.filename.s)
     IN /\ exportsDir' =
             IF out.write THEN WriteFileSync(exportsDir, name, out.text)
             ELSE exportsDir
        /\ writer' = IF out.write THEN [writer EXCEPT !.exports[name] = i] ELSE writer
        /\ req' = [req EXCEPT ![i] =
             Done("convert", req[i].body, req[i].xmlData,
                  out.resp.stage # "serialize", out)]
  /\ UNCHANGED <<templatesJson, templatesCsv, csvDirExists, arrived>>

Next ==
  \/ \E i \in Requests, k \in 1..Len(XmlToJsonBodies) :
       XmlToJsonBegin(i, XmlToJsonBodies[k]) /\ UNCHANGED pureVars
  \/ \E i \in Requests : XmlToJsonResume(i) /\ UNCHANGED pureVars
  \/ \E i \in Requests, k \in 1..Len(JsonToCsvBodies), csvOk \in BOOLEAN :
       JsonToCsv(i, JsonToCsvBodies[k], csvOk) /\ UNCHANGED pureVars
  \/ \E i \in Requests, k \in 1..Len(ConvertBodies) :
       ConvertBegin(i, ConvertBodies[k]) /\ UNCHANGED pureVars
  \/ \E i \in Requests, csvOk \in BOOLEAN : ConvertResume(i, csvOk) /\ UNCHANGED pureVars

Spec == Init /\ [][Next]_vars

----------------------------------------------------------------------------
(* cleanJson and flattenJson on values built up from leaves *)

MaxWraps == 2

\* the leaves a value is built from
Seeds ==
  <<Null, Bool(FALSE), Num(0), Num(1), Str(<<>>), Str(<<"x">>), Arr(<<>>), Obj(<<>>)>>

\* what stands beside the value in a sequence or a mapping of two
Siblings == <<Num(2), Obj(<<<<AttributeMarker, Str(<<"i">>)>>>>)>>

Keys == {AttributeMarker, <<"a">>, <<>>}

InitSeeds ==
  /\ templatesJson = InitialJsonDir
  /\ templatesCsv = EmptyCsvDir
  /\ csvDirExists = TRUE
  /\ exportsDir = EmptyCsvDir
  /\ req = [i \in Requests |-> Idle]
  /\ arrived = 0
  /\ writer = NoWriter
  /\ \E k \in 1..Len(Seeds) : val = Seeds[k]
  /\ wraps = 0
  /\ phase = "build"
  /\ cleaned = Null
  /\ flat = <<>>

Wrap(v) ==
  /\ phase = "build"
  /\ wraps < MaxWraps
  /\ val' = v
  /\ wraps' = wraps + 1
  /\ UNCHANGED <<phase, cleaned, flat>>

\* [val]
WrapSingle == Wrap(Arr(<<val>>))

\* [val, sibling]
WrapPair(sibling) == Wrap(Arr(<<val, sibling>>))

\* {key: val}
WrapKey(key) == Wrap(Obj(<<<<key, val>>>>))

\* {key: val, other: sibling}
WrapKeys(key, other, sibling) ==
  /\ key # other
  /\ Wrap(Obj(<<<<key, val>>, <<other, sibling>>>>))

\* cleaned = cleanJson(val)
Clean ==
  /\ phase = "build"
  /\ phase' = "cleaned"
  /\ cleaned' = cleanJson(val)
  /\ UNCHANGED <<val, wraps, flat>>

\* flat = flattenJson(val), for a mapping val
Flatten ==
  /\ phase = "build"
  /\ IsPlainObject(val)
  /\ phase' = "flattened"
  /\ flat' = flattenJson(val, <<>>, <<>>)
  /\ UNCHANGED <<val, wraps, cleaned>>

NextPure ==
  \/ WrapSingle /\ UNCHANGED handlerVars
  \/ \E k \in 1..Len(Siblings) : WrapPair(Siblings[k]) /\ UNCHANGED handlerVars
  \/ \E key \in Keys : WrapKey(key) /\ UNCHANGED handlerVars
  \/ \E key \in Keys, other \in Keys, k \in 1..Len(Siblings) :
       WrapKeys(key, other, Siblings[k]) /\ UNCHANGED handlerVars
  \/ Clean /\ UNCHANGED handlerVars
  \/ Flatten /\ UNCHANGED handlerVars

SpecPure == InitSeeds /\ [][NextPure]_vars

----------------------------------------------------------------------------
(* what the claims speak of *)

RECURSIVE HasKey(_, _)

\* TRUE iff some mapping of v, at any depth, has the key
HasKey(v, key) ==
  CASE v.t = "arr" -> \E i \in 1..Len(v.xs) : HasKey(v.xs[i], key)
    [] v.t = "obj" -> \E i \in 1..Len(v.es) : v.es[i][1] = key \/ HasKey(v.es[i][2], key)
    [] OTHER -> FALSE

RECURSIVE HasSingleton(_)

\* TRUE iff some sequence of v, at any depth, has exactly one element
HasSingleton(v) ==
  CASE v.t = "arr" -> Len(v.xs) = 1 \/ \E i \in 1..Len(v.xs) : HasSingleton(v.xs[i])
    [] v.t = "obj" -> \E i \in 1..Len(v.es) : HasSingleton(v.es[i][2])
    [] OTHER -> FALSE

RECURSIVE Collapsed(_)

\* v with every single-element sequence replaced by its element, and
\* nothing else changed
Collapsed(v) ==
  CASE v.t = "arr" ->
         IF Len(v.xs) = 1 THEN Collapsed(v.xs[1])
         ELSE Arr([i \in 1..Len(v.xs) |-> Collapsed(v.xs[i])])
    [] v.t = "obj" -> Obj([i \in 1..Len(v.es) |-> <<v.es[i][1], Collapsed(v.es[i][2])>>])
    [] OTHER -> v

RECURSIVE SlashInKeys(_)

\* TRUE iff some key of the mapping v, at any depth of nested mappings,
\* contains "/"
SlashInKeys(v) ==
  IF v.t # "obj" THEN FALSE
  ELSE \E i \in 1..Len(v.es) :
         \/ \E j \in 1..Len(v.es[i][1]) : v.es[i][1][j] = Slash
         \/ SlashInKeys(v.es[i][2])

RECURSIVE LeafPaths(_)

\* the number of leaf paths below the entries es of a mapping: the paths
\* through nested mappings that end at a value that is no mapping
LeafPaths(es) ==
  IF es = <<>> THEN 0
  ELSE (IF es[1][2].t = "obj" THEN LeafPaths(es[1][2].es) ELSE 1) + LeafPaths(Tail(es))

RECURSIVE IsLeafBelow(_, _)

\* TRUE iff v is the value at the end of a leaf path below the entries es
IsLeafBelow(v, es) ==
  \E i \in 1..Len(es) :
    IF es[i][2].t = "obj" THEN IsLeafBelow(v, es[i][2].es) ELSE es[i][2] = v

\* the keys of the entries es
KeysOf(es) == {es[i][1] : i \in 1..Len(es)}

----------------------------------------------------------------------------
(* cleanJson, flattenJson: C1 to C4, under SpecPure *)

\* C1: the result of cleanJson has no mapping with the key "$" at any depth.
C1_NoAttributeMarker == phase = "cleaned" => ~HasKey(cleaned, AttributeMarker)

\* C1's case: a single-element sequence around a mapping whose only key is
\* "$" has been cleaned
C1_Witness ==
  /\ phase = "cleaned"
  /\ val.t = "arr"
  /\ Len(val.xs) = 1
  /\ val.xs[1].t = "obj"
  /\ KeysOf(val.xs[1].es) = {AttributeMarker}
  /\ cleaned = Obj(<<>>)

\* C2 as claimed: every value of the result of flattenJson is a scalar,
\* neither an array nor a mapping.
C2_OnlyScalars ==
  phase = "flattened" => \A i \in 1..Len(flat) : flat[i][2].t \notin {"arr", "obj"}

\* C2 as amended: no value of the result of flattenJson is a mapping; an
\* array is a leaf and passes through as it is.
C2_NoMappingValue ==
  phase = "flattened" =>
    \A i \in 1..Len(flat) :
      /\ flat[i][2].t # "obj"
      /\ flat[i][2].t = "arr" => IsLeafBelow(flat[i][2], val.es)

\* C2's case: a mapping with a nested mapping and with an array below it
\* has been flattened
C2_Witness ==
  /\ phase = "flattened"
  /\ \E j \in 1..Len(val.es) :
       /\ val.es[j][2].t = "obj"
       /\ \E k \in 1..Len(val.es[j][2].es) : val.es[j][2].es[k][2].t = "arr"
  /\ \E i \in 1..Len(flat) : flat[i][2].t = "arr" /\ Len(flat[i][1]) > 1

\* C3: cleanJson is idempotent, and on a value without the key "$" it only
\* replaces every single-element sequence by its element.
C3_Idempotent ==
  phase = "cleaned" =>
    /\ cleanJson(cleaned) = cleaned
    /\ ~HasKey(val, AttributeMarker) => cleaned = Collapsed(val)

\* C3's case: a value without "$" that holds a single-element sequence
\* inside another container has been cleaned
C3_Witness ==
  /\ phase = "cleaned"
  /\ ~HasKey(val, AttributeMarker)
  /\ wraps = MaxWraps
  /\ HasSingleton(val)
  /\ cleaned # val

\* C4: when no key contains "/", flattenJson gives every leaf path of the
\* mapping a result key of its own, so the result has as many keys as the
\* mapping has leaf paths.
C4_DistinctKeys ==
  (phase = "flattened" /\ ~SlashInKeys(val)) => Len(flat) = LeafPaths(val.es)

----------------------------------------------------------------------------
(* the handlers: C5 to C10, under Spec *)

\* the selection as C5 describes it: one step descends only from a mapping
\* that holds a truthy value at the key, and is absent (null) otherwise
MappingStep(acc, key) ==
  IF acc.t = "obj" /\ Truthy(GetProp(acc, key)) THEN GetProp(acc, key) ELSE Null

RECURSIVE MappingSelect(_, _)

MappingSelect(segments, acc) ==
  IF segments = <<>> THEN acc
  ELSE MappingSelect(Tail(segments), MappingStep(acc, segments[1]))

\* the path expression request r selects by; undefined when it selects nothing
PathOf(r) ==
  IF r.handler = "convert" THEN WithDefault(r.body.jsonPath)
  ELSE IF Truthy(r.body.jsonPath) THEN r.body.jsonPath
  ELSE Undefined

\* request r has been answered and its pipeline came as far as the selection
Selected(r) ==
  /\ r.pc = "done"
  /\ r.handler \in {"jsonToCsv", "convert"}
  /\ r.jsonData # NotReached

\* C5: selection descends through mappings only; where the current value is
\* no mapping, or holds a falsy value at the key, the result is absent and
\* the answer is the 400 'path does not exist'.
C5_SelectThroughMappings ==
  \A i \in Requests :
    (Selected(req[i]) /\ PathOf(req[i]).t = "str") =>
      LET sel == MappingSelect(Split(PathOf(req[i]).s), req[i].jsonData) IN
        /\ sel = Null => req[i].resp = PathDoesNotExist
        /\ sel # Null => req[i].selected = sel

\* C6: jsonToCsv answers 'path does not exist' only when a jsonPath was
\* given and selected nothing; without a jsonPath the whole document is
\* used, and one that is no array is answered 'not an array'.
C6_PathErrorOnlyWithPath ==
  \A i \in Requests :
    (Selected(req[i]) /\ req[i].handler = "jsonToCsv") =>
      /\ req[i].resp = PathDoesNotExist =>
           (Truthy(req[i].body.jsonPath) /\ ~Truthy(req[i].selected))
      /\ (~Truthy(req[i].body.jsonPath) /\ ~IsArray(req[i].jsonData)) =>
           (req[i].selected = req[i].jsonData /\ req[i].resp = NotAnArray)

OutputDirs == <<templatesJson, templatesCsv, exportsDir>>

\* request i is answered in this step
Answered(i) == req[i].pc # "done" /\ req'[i].pc = "done"

\* C7: an output file is written only by the step that ends a request whose
\* every stage has succeeded; a step that ends a request with a 400, a 404
\* or a 500, and every step before the write, leaves the output files alone.
C7_WriteLast ==
  [][/\ OutputDirs' # OutputDirs =>
          \E i \in Requests :
            /\ Answered(i)
            /\ req'[i].resp.class = "ok"
            /\ req'[i].resp.filePath # NoPath
     /\ \A i \in Requests :
          (Answered(i) /\ req'[i].resp.class # "ok") => OutputDirs' = OutputDirs
    ]_vars

\* C7's case: a request was answered 'not an array' or 'path does not
\* exist' after an earlier request had written the very output file
C7_Witness ==
  \E i \in Requests :
    /\ req[i].pc = "done"
    /\ req[i].handler = "convert"
    /\ req[i].resp.stage \in {"select", "array"}
    /\ exportsDir[OutputCsvName(req[i].body.filename.s)] # NoFile

\* xmlToJson on the XML text, then jsonToCsv on the JSON file it wrote
XmlToJsonThenJsonToCsv(xmlData, filename, jsonPath, csvOk) ==
  LET first == XmlToJsonOutcome(xmlData, filename) IN
    IF ~first.write THEN first
    ELSE JsonToCsvOutcome(first.text, OutputJsonName(filename), WithDefault(jsonPath), csvOk)

\* C8: convert answers as xmlToJson followed by jsonToCsv would, with the
\* same rows for json2csv, whatever the jsonPath; and it writes no JSON file.
C8_ConvertIsComposition ==
  /\ \A i \in Requests :
       (/\ req[i].pc = "done"
        /\ req[i].handler = "convert"
        /\ Located(XmlDir, req[i].body.filename).class = "ok") =>
         LET two == XmlToJsonThenJsonToCsv(req[i].xmlData, req[i].body.filename.s,
                                           req[i].body.jsonPath, req[i].csvOk)
         IN /\ req[i].resp.class = two.resp.class
            /\ req[i].resp.error = two.resp.error
            /\ req[i].rows = two.rows
  /\ \A n \in DOMAIN templatesJson :
       writer.json[n] # 0 => req[writer.json[n]].handler = "xmlToJson"

\* the text request r wrote to its output file
TextOf(r) ==
  CASE r.handler = "xmlToJson" ->
         Stringify(cleanJson(ReadFileSync(XmlDir, r.body.filename.s).tree))
    [] r.handler = "convert" ->
         Json2Csv(FlattenAll(Reduce(Split(WithDefault(r.body.jsonPath).s),
                    cleanJson(ReadFileSync(XmlDir, r.body.filename.s).tree))))
    [] OTHER -> Json2Csv(FlattenAll(r.selected))

\* the name of the output file of request r
TargetOf(r) ==
  IF r.handler = "xmlToJson" THEN OutputJsonName(r.body.filename.s)
  ELSE OutputCsvName(r.body.filename.s)

\* no request that writes file n of the directory of handler h is suspended
Settled(h, n) ==
  \A i \in Requests : ~(req[i].pc = "parsing" /\ req[i].handler = h /\ TargetOf(req[i]) = n)

\* the file is as it was at first (w = 0) or holds what request w wrote
HoldsOutputOf(file, first, w) ==
  IF w = 0 THEN file = first
  ELSE req[w].pc = "done" /\ req[w].resp.class = "ok" /\ file = File(TextOf(req[w]))

\* C9: once the requests for an output file have finished, the file holds the
\* whole output of the request that wrote last and nothing else, and every
\* successful xmlToJson or convert response carries the cleaned data of its
\* own input.
C9_LastWriterWins ==
  /\ \A n \in DOMAIN templatesJson :
       Settled("xmlToJson", n) =>
         HoldsOutputOf(templatesJson[n], InitialJsonDir[n], writer.json[n])
  /\ \A n \in CsvNames :
       /\ Settled("convert", n) => HoldsOutputOf(exportsDir[n], NoFile, writer.exports[n])
       /\ HoldsOutputOf(templatesCsv[n], NoFile, writer.csv[n])
  /\ \A i \in Requests :
       (req[i].pc = "done" /\ req[i].resp.class = "ok" /\ req[i].handler # "jsonToCsv") =>
         req[i].resp.data = cleanJson(ReadFileSync(XmlDir, req[i].body.filename.s).tree)

\* C9's case: two xmlToJson requests for a.json ran at the same time, the
\* one that arrived first wrote last, and the other's response carries its
\* own data, not what the file holds now
C9_Witness ==
  /\ \A i \in Requests : req[i].pc = "done"
  /\ \E i, j \in Requests :
       /\ i < j
       /\ req[i].handler = "xmlToJson" /\ req[j].handler = "xmlToJson"
       /\ req[i].resp.class = "ok" /\ req[j].resp.class = "ok"
       /\ req[i].body # req[j].body
       /\ writer.json[FileAJson] = i
       /\ templatesJson[FileAJson] = File(Stringify(req[i].resp.data))
       /\ templatesJson[FileAJson] # File(Stringify(req[j].resp.data))

\* dataToConvert of request r is an array with an element that is no mapping
HasNonMappingItem(r) ==
  /\ r.selected.t = "arr"
  /\ \E k \in 1..Len(r.selected.xs) : r.selected.xs[k].t # "obj"

\* C10: a selected array with an element that is no mapping never reaches
\* flattenJson: no rows come of it and no 500 from the flattening.
C10_FlattenGuarded ==
  \A i \in Requests :
    (Selected(req[i]) /\ HasNonMappingItem(req[i])) =>
      /\ req[i].rows = <<>>
      /\ req[i].resp.class # "ok"
      /\ req[i].resp.stage # "flatten"

====
